---- MODULE Spec2Model ----
(***************************************************************************)
(* The RBAC demo service of rbac-project/server/server.js: the permission  *)
(* matrix, the authentication and authorization middlewares and the route  *)
(* handlers over the in-memory users/posts arrays.                         *)
(*                                                                         *)
(* Node runs every callback to completion on one thread, and Express calls *)
(* next() synchronously, so one request is inside the middleware chain at  *)
(* a time; pc is the position of that request in the chain.                *)
(***************************************************************************)
EXTENDS Integers, Sequences, FiniteSets, TLC

VARIABLES users, posts, nextUserId, nextPostId, tokens, log, now, served,
          pc, req, res

vars == <<users, posts, nextUserId, nextPostId, tokens, log, now, served,
          pc, req, res>>

(* ------------------------------ bounds --------------------------------- *)

\* Requests accepted by the server in one behaviour.
MaxRequests == 3

\* Last value of the wall clock (in hours).
MaxClock == 1

(* ----------------------------- JS values ------------------------------- *)

\* The JS value undefined, where a string is expected.
Undefined == "<undefined>"

\* The JS value NaN, where a number is expected; NaN === x is false for all x.
NaN == -1

\* v is falsy (undefined or the empty string).
Falsy(v) == v \in {Undefined, ""}

\* arr.includes(x) for an array modelled as a sequence.
Includes(arr, x) == \E i \in 1..Len(arr) : arr[i] = x

\* Faulty variant of findIndex: the first record when none has the id.
FindIndexByIdOrFirst(arr, id) ==
    IF \E i \in 1..Len(arr) : arr[i].id = id
    THEN CHOOSE i \in 1..Len(arr) :
            /\ arr[i].id = id
            /\ \A j \in 1..(i - 1) : arr[j].id # id
    ELSE 1

\* arr.findIndex(pred): the first (1-based) index with the id, 0 when none
\* (the code's -1).
FindIndexById(arr, id) ==
    IF \E i \in 1..Len(arr) : arr[i].id = id
    THEN CHOOSE i \in 1..Len(arr) :
            /\ arr[i].id = id
            /\ \A j \in 1..(i - 1) : arr[j].id # id
    ELSE 0

\* arr.findIndex by username; 0 when none.
FindIndexByUsername(arr, name) ==
    IF \E i \in 1..Len(arr) : arr[i].username = name
    THEN CHOOSE i \in 1..Len(arr) :
            /\ arr[i].username = name
            /\ \A j \in 1..(i - 1) : arr[j].username # name
    ELSE 0

\* arr.splice(i, 1)
Splice(arr, i) == [j \in 1..(Len(arr) - 1) |-> IF j < i THEN arr[j] ELSE arr[j + 1]]

Digits == <<"0", "1", "2", "3", "4", "5", "6", "7", "8", "9">>

IsDigit(c) == \E d \in 1..10 : Digits[d] = c

DigitValue(c) == (CHOOSE d \in 1..10 : Digits[d] = c) - 1

RECURSIVE ParseDigits(_, _)
\* The value of the longest prefix of digits of s, continuing from acc.
ParseDigits(s, acc) ==
    IF s = <<>> \/ ~IsDigit(Head(s)) THEN acc
    ELSE ParseDigits(Tail(s), acc * 10 + DigitValue(Head(s)))

\* parseInt(s) for a string given as its sequence of characters: the leading
\* digits, NaN when there are none.
ParseInt(s) ==
    IF s = <<>> \/ ~IsDigit(Head(s)) THEN NaN ELSE ParseDigits(s, 0)

(* --------------------------- configuration ----------------------------- *)

JWT_SECRET == "supersecurejwtsecret"

\* '1h', in hours.
JWT_EXPIRATION == 1

\* The RBAC permission matrix.
PERMISSIONS ==
    [ADMIN  |-> [users |-> <<"create", "read", "update", "delete">>,
                 posts |-> <<"create", "read", "update", "delete">>,
                 admin |-> <<"manage_roles">>],
     EDITOR |-> [posts |-> <<"create", "read">>,
                 self_posts |-> <<"update", "delete">>,
                 users |-> <<"read">>],
     VIEWER |-> [posts |-> <<"read">>]]

\* The literal ['ADMIN', 'EDITOR', 'VIEWER'] of the register and role routes.
ValidRoles == <<"ADMIN", "EDITOR", "VIEWER">>

\* Property names every object literal inherits from Object.prototype: a
\* lookup obj[key] with such a key yields a truthy built-in, not undefined.
ObjectPrototypeKeys ==
    {"constructor", "toString", "valueOf", "hasOwnProperty", "__proto__"}

\* An object with no property of its own (the built-ins above, as far as the
\* resource keys looked up on them go).
NoOwnKeys == [k \in {} |-> <<>>]

\* obj[key] is truthy.
Truthy(obj, key) == key \in DOMAIN obj \/ key \in ObjectPrototypeKeys

\* obj[key], once it is known to be truthy.
Get(obj, key) == IF key \in DOMAIN obj THEN obj[key] ELSE NoOwnKeys

\* `self_${resource}`
SelfResource(resource) == "self_" \o resource

\* bcrypt.hashSync(password, 10)
hashPassword(password) == <<"bcrypt", password>>

\* bcrypt.compareSync(password, hash)
compareSync(password, hash) == hash = hashPassword(password)

\* jwt.sign(payload, JWT_SECRET, {expiresIn}) at time t.
jwtSign(payload, t) ==
    [userId |-> payload.userId, role |-> payload.role,
     username |-> payload.username, exp |-> t + JWT_EXPIRATION,
     key |-> JWT_SECRET]

\* Faulty variant of the verification: the expiry is not looked at.
jwtVerifiesIgnoringExpiry(token, t) == token.key = JWT_SECRET

\* jwt.verify(token, JWT_SECRET) succeeds at time t.
jwtVerifies(token, t) == token.key = JWT_SECRET /\ t < token.exp

(* ------------------------------ seeding -------------------------------- *)

SeedUsers ==
    << [id |-> 1, username |-> "admin", password |-> hashPassword("admin123"),
        role |-> "ADMIN", email |-> "admin@example.com"],
       [id |-> 2, username |-> "editor1", password |-> hashPassword("editor123"),
        role |-> "EDITOR", email |-> "editor1@example.com"],
       [id |-> 3, username |-> "editor2", password |-> hashPassword("editor123"),
        role |-> "EDITOR", email |-> "editor2@example.com"],
       [id |-> 4, username |-> "viewer", password |-> hashPassword("viewer123"),
        role |-> "VIEWER", email |-> "viewer@example.com"] >>

SeedUserId(name) == SeedUsers[FindIndexByUsername(SeedUsers, name)].id

SeedPosts ==
    << [id |-> 1, title |-> "Admin Global News", content |-> "This is global content.",
        authorId |-> SeedUserId("admin"), author |-> "admin",
        createdAt |-> 0, updatedAt |-> <<>>],
       [id |-> 2, title |-> "Editor 1 Private Draft",
        content |-> "Content only Editor 1 can modify.",
        authorId |-> SeedUserId("editor1"), author |-> "editor1",
        createdAt |-> 0, updatedAt |-> <<>>],
       [id |-> 3, title |-> "Editor 2 Public Article",
        content |-> "A public facing article by Editor 2.",
        authorId |-> SeedUserId("editor2"), author |-> "editor2",
        createdAt |-> 0, updatedAt |-> <<>>],
       [id |-> 4, title |-> "General Info for Viewers",
        content |-> "Everyone can read this.",
        authorId |-> SeedUserId("editor1"), author |-> "editor1",
        createdAt |-> 0, updatedAt |-> <<>>] >>

\* The console output of seedDatabase and of the listen callback.
SeedLog ==
    << [level |-> "log", message |-> "Database seeded",
        users |-> Len(SeedUsers), posts |-> Len(SeedPosts)],
       [level |-> "log", message |-> "Server running"] >>

(* ------------------------- requests, responses ------------------------- *)

\* req.user before authMiddleware has set it.
NoUser == [id |-> 0, role |-> Undefined, username |-> Undefined]

\* A request body with no field set.
EmptyBody ==
    [username |-> Undefined, password |-> Undefined, email |-> Undefined,
     role |-> Undefined, title |-> Undefined, content |-> Undefined,
     newRole |-> Undefined]

\* The arguments of authorize(...) in a route's middleware list; a route
\* without the middleware has none.
NoGate == [resource |-> Undefined, action |-> Undefined, isOwnerCheck |-> FALSE]

Gate(resource, action, isOwnerCheck) ==
    [resource |-> resource, action |-> action, isOwnerCheck |-> isOwnerCheck]

\* Faulty variant of the routes: the role route is gated like the user list.
RoutesRoleRouteGatedAsUserList ==
    [register   |-> [auth |-> FALSE, gate |-> NoGate],
     login      |-> [auth |-> FALSE, gate |-> NoGate],
     createPost |-> [auth |-> TRUE, gate |-> Gate("posts", "create", FALSE)],
     readPosts  |-> [auth |-> TRUE, gate |-> Gate("posts", "read", FALSE)],
     updatePost |-> [auth |-> TRUE, gate |-> Gate("posts", "update", TRUE)],
     deletePost |-> [auth |-> TRUE, gate |-> Gate("posts", "delete", TRUE)],
     listUsers  |-> [auth |-> TRUE, gate |-> Gate("users", "read", FALSE)],
     changeRole |-> [auth |-> TRUE, gate |-> Gate("users", "read", FALSE)]]

\* The routes the app registers: whether authMiddleware guards them and the
\* arguments of their authorize middleware.
Routes ==
    [register   |-> [auth |-> FALSE, gate |-> NoGate],
     login      |-> [auth |-> FALSE, gate |-> NoGate],
     createPost |-> [auth |-> TRUE, gate |-> Gate("posts", "create", FALSE)],
     readPosts  |-> [auth |-> TRUE, gate |-> Gate("posts", "read", FALSE)],
     updatePost |-> [auth |-> TRUE, gate |-> Gate("posts", "update", TRUE)],
     deletePost |-> [auth |-> TRUE, gate |-> Gate("posts", "delete", TRUE)],
     listUsers  |-> [auth |-> TRUE, gate |-> Gate("users", "read", FALSE)],
     changeRole |-> [auth |-> TRUE, gate |-> Gate("admin", "manage_roles", FALSE)]]

\* No request is inside the middleware chain.
NoRequest ==
    [route |-> "none", gate |-> NoGate, authorization |-> <<>>,
     xRequestId |-> Undefined, id |-> <<>>, body |-> EmptyBody,
     user |-> NoUser, isOwnerCheckRequired |-> FALSE]

\* Faulty variant of the request object: the ownership flag lives outside the
\* request and stays set once a handler has acted on it.
RequestSharingFlag(route, authorization, xRequestId, id, body) ==
    [route |-> route, gate |-> Routes[route].gate, authorization |-> authorization,
     xRequestId |-> xRequestId, id |-> id, body |-> body, user |-> NoUser,
     isOwnerCheckRequired |->
        \E i \in 1..Len(log) :
            log[i].message \in {"Authorization Denial (403): update",
                                "Authorization Denial (403): delete"}]

\* An incoming request: req.headers.authorization (the words of the header,
\* <<>> when absent), req.headers['x-request-id'], req.params.id (its
\* characters) and req.body; req.user and req.isOwnerCheckRequired are not
\* yet set.
Request(route, authorization, xRequestId, id, body) ==
    [route |-> route, gate |-> Routes[route].gate,
     authorization |-> authorization, xRequestId |-> xRequestId,
     id |-> id, body |-> body,
     user |-> NoUser, isOwnerCheckRequired |-> FALSE]

\* No response sent yet.
NoResponse == [status |-> 0, body |-> [pending |-> TRUE]]

\* res.status(status).send(body); res.send(body) sends status 200.
Response(status, body) == [status |-> status, body |-> body]

\* What a middleware or handler did with a request: called next() or sent a
\* response, the request object as it left it, and its console output.
Outcome(next, r, response, out) ==
    [next |-> next, req |-> r, res |-> response, out |-> out]

(* ------------------------------ inputs --------------------------------- *)

\* A token not signed with the server's secret.
ForgedToken ==
    [userId |-> 1, role |-> "ADMIN", username |-> "admin",
     exp |-> MaxClock + JWT_EXPIRATION, key |-> "not-the-secret"]

\* Authorization headers that carry no identity: none, a non-Bearer scheme,
\* a Bearer token the server did not sign.
AnonymousHeaders == {<<>>, <<"Basic", ForgedToken>>, <<"Bearer", ForgedToken>>}

\* Authorization headers with a token the server issued.
BearerHeaders == {<<"Bearer", t>> : t \in tokens}

XRequestIds == {Undefined}

\* Values of the :id path parameter.
IdParams == {<<"1">>, <<"2">>, <<"5">>, <<"x">>}

Usernames == {"admin", "editor1", "editor2", "viewer", "newbie"}

Passwords == {"admin123", "editor123", "viewer123"}

\* Role values a client may put in a body.
RoleInputs == {Undefined, "ADMIN", "VIEWER", "GUEST"}

Titles == {Undefined, "New title"}

Contents == {Undefined, "New content"}

RegisterBodies ==
    {[EmptyBody EXCEPT !.username = u, !.password = p, !.role = r] :
        u \in {Undefined, "admin", "newbie"}, p \in {Undefined, "admin123"},
        r \in RoleInputs}

LoginBodies ==
    {[EmptyBody EXCEPT !.username = u, !.password = p] :
        u \in Usernames, p \in Passwords}

PostBodies ==
    {[EmptyBody EXCEPT !.title = t, !.content = c] : t \in Titles, c \in Contents}

RoleBodies == {[EmptyBody EXCEPT !.newRole = r] : r \in RoleInputs}

\* The :id parameters and bodies a client may send to a route.
ParamsOf(route) ==
    CASE route = "register" -> {<<>>} \X RegisterBodies
      [] route = "login" -> {<<>>} \X LoginBodies
      [] route = "createPost" -> {<<>>} \X PostBodies
      [] route = "updatePost" -> IdParams \X PostBodies
      [] route = "deletePost" -> IdParams \X {EmptyBody}
      [] route = "changeRole" -> IdParams \X RoleBodies
      [] OTHER -> {<<>>} \X {EmptyBody}

\* The requests a client may send to a route. authMiddleware answers a
\* request without identity before anything reads its parameters or body,
\* so one such request per header stands for all of them.
RequestsTo(route) ==
    IF Routes[route].auth
    THEN {Request(route, h, x, p[1], p[2]) :
             h \in BearerHeaders, x \in XRequestIds, p \in ParamsOf(route)}
         \cup {Request(route, h, x, <<"1">>, EmptyBody) :
                  h \in AnonymousHeaders, x \in XRequestIds}
    ELSE {Request(route, <<>>, x, p[1], p[2]) :
             x \in XRequestIds, p \in ParamsOf(route)}

(* ---------------------------- middlewares ------------------------------ *)

\* authMiddleware(req, res, next)
authMiddleware(r) ==
    LET authHeader == r.authorization IN
    IF authHeader = <<>> \/ ~(Len(authHeader) >= 2 /\ authHeader[1] = "Bearer")
    THEN Outcome(FALSE, r,
                 Response(401, [error |-> "Access Denied. No token provided."]),
                 << [level |-> "log",
                     message |-> "Authorization check failed: Missing or invalid header."] >>)
    ELSE LET token == authHeader[2] IN
         IF jwtVerifies(token, now)
         THEN Outcome(TRUE,
                      [r EXCEPT !.user = [id |-> token.userId, role |-> token.role,
                                          username |-> token.username]],
                      NoResponse, <<>>)
         ELSE Outcome(FALSE, r, Response(400, [error |-> "Invalid token."]),
                      << [level |-> "log", message |-> "JWT verification failed"] >>)

\* The response of the gate's ordinary denial.
Forbidden(role, resource, action) ==
    Response(403, [error |-> "Forbidden. Role cannot perform action on resource.",
                   role |-> role, action |-> action, resource |-> resource])

\* The response of the gate to a role PERMISSIONS has no entry for.
InvalidRoleConfiguration ==
    Response(403, [error |-> "Forbidden. Invalid Role Configuration."])

\* The structured denial record written with console.error.
AuthorizationDenied(r, role, resource, action) ==
    [level |-> "error", message |-> "AuthorizationDenied",
     userId |-> r.user.id, username |-> r.user.username, role |-> role,
     requiredPermission |-> <<resource, action>>, timestamp |-> now,
     correlationId |-> IF Falsy(r.xRequestId) THEN "N/A" ELSE r.xRequestId]

\* Faulty variant of the standard check: the resource key alone grants.
hasStandardPermissionAnyAction(rolePermissions, resource, action) ==
    Truthy(rolePermissions, resource)

\* 1. Standard check: rolePermissions[resource] lists the action.
hasStandardPermission(rolePermissions, resource, action) ==
    /\ Truthy(rolePermissions, resource)
    /\ Includes(Get(rolePermissions, resource), action)

\* Faulty variant of the ownership check: the self_ key is consulted on
\* every route.
hasSelfPermissionOnEveryRoute(rolePermissions, resource, action, isOwnerCheck) ==
    /\ Truthy(rolePermissions, SelfResource(resource))
    /\ Includes(Get(rolePermissions, SelfResource(resource)), action)

\* 2. Ownership check: the route asked for it and
\* rolePermissions['self_' + resource] lists the action.
hasSelfPermission(rolePermissions, resource, action, isOwnerCheck) ==
    /\ isOwnerCheck
    /\ Truthy(rolePermissions, SelfResource(resource))
    /\ Includes(Get(rolePermissions, SelfResource(resource)), action)

\* Faulty variant of the flag: set whenever the route asks for the ownership
\* check.
flagOwnerCheckWhenAsked(r, self) ==
    [r EXCEPT !.isOwnerCheckRequired = r.gate.isOwnerCheck]

\* Faulty variant of the flag: the request is never flagged.
flagOwnerCheckNever(r, self) == r

\* req.isOwnerCheckRequired = true, inside the self-permission branch.
flagOwnerCheck(r, self) ==
    IF self THEN [r EXCEPT !.isOwnerCheckRequired = TRUE] ELSE r

\* Faulty variant of the denial: the post is looked up first, and a missing
\* one is reported as such.
denyAfterLookup(r, role, resource, action) ==
    IF resource = "posts" /\ r.id # <<>> /\ FindIndexById(posts, ParseInt(r.id)) = 0
    THEN Outcome(FALSE, r, Response(404, [text |-> "Post not found."]), <<>>)
    ELSE Outcome(FALSE, r, Forbidden(role, resource, action),
                 << AuthorizationDenied(r, role, resource, action) >>)

\* Faulty variant of the denial: the 403 is sent and nothing is written.
denySilently(r, role, resource, action) ==
    Outcome(FALSE, r, Forbidden(role, resource, action), <<>>)

\* The else branch of the gate: the two denial records and the 403.
deny(r, role, resource, action) ==
    Outcome(FALSE, r, Forbidden(role, resource, action),
            << [level |-> "log", message |-> "Authorization Denial (403)",
                username |-> r.user.username, role |-> role,
                requiredPermission |-> <<resource, action>>],
               AuthorizationDenied(r, role, resource, action) >>)

\* authorize(resource, action, isOwnerCheck)(req, res, next)
authorize(resource, action, isOwnerCheck, r) ==
    LET role == r.user.role IN
    IF ~Truthy(PERMISSIONS, role)
    THEN Outcome(FALSE, r, InvalidRoleConfiguration,
                 << [level |-> "warn", message |-> "Attempted access with invalid role",
                     userId |-> r.user.id, role |-> role] >>)
    ELSE
      LET rolePermissions == Get(PERMISSIONS, role)
          standard == hasStandardPermission(rolePermissions, resource, action)
          self == hasSelfPermission(rolePermissions, resource, action, isOwnerCheck)
          hasPermission == standard \/ self
      IN IF hasPermission
         THEN Outcome(TRUE, flagOwnerCheck(r, self), NoResponse, <<>>)
         ELSE deny(r, role, resource, action)

(* ------------------------------- state --------------------------------- *)

\* The state once the module has loaded: the seeded arrays, no token issued.
Init ==
    /\ users = SeedUsers
    /\ posts = SeedPosts
    /\ nextUserId = Len(SeedUsers) + 1
    /\ nextPostId = Len(SeedPosts) + 1
    /\ tokens = {}
    /\ log = SeedLog
    /\ now = 0
    /\ served = 0
    /\ pc = "idle"
    /\ req = NoRequest
    /\ res = NoResponse

\* The clock advances between requests.
Tick ==
    /\ pc = "idle"
    /\ now < MaxClock
    /\ now' = now + 1
    /\ UNCHANGED <<users, posts, nextUserId, nextPostId, tokens, log, served,
                   pc, req, res>>

\* A middleware's outcome: the next callback runs, or the response is sent.
Pass(o, nextPc) ==
    /\ req' = o.req
    /\ res' = o.res
    /\ log' = log \o o.out
    /\ pc' = IF o.next THEN nextPc ELSE "done"

\* A request to a guarded route arrives; Express calls authMiddleware, the
\* first callback of the route.
AuthMiddleware ==
    /\ pc = "idle"
    /\ served < MaxRequests
    /\ \E route \in {x \in DOMAIN Routes : Routes[x].auth} :
          \E r \in RequestsTo(route) : Pass(authMiddleware(r), "authorize")
    /\ served' = served + 1
    /\ UNCHANGED <<users, posts, nextUserId, nextPostId, tokens, now>>

\* authMiddleware called next(): the route's authorize middleware runs.
Authorize ==
    /\ pc = "authorize"
    /\ Pass(authorize(req.gate.resource, req.gate.action, req.gate.isOwnerCheck, req),
            "handler")
    /\ UNCHANGED <<users, posts, nextUserId, nextPostId, tokens, now, served>>

\* The response has been sent; the request and response objects are dropped.
Finish ==
    /\ pc = "done"
    /\ pc' = "idle"
    /\ req' = NoRequest
    /\ res' = NoResponse
    /\ UNCHANGED <<users, posts, nextUserId, nextPostId, tokens, log, now, served>>

(* ------------------------------ handlers ------------------------------- *)

\* What a route handler leaves behind: the arrays and counters, the tokens
\* clients hold, the response sent and the console output.
Effect(u, p, nu, np, tk, response, out) ==
    [users |-> u, posts |-> p, nextUserId |-> nu, nextPostId |-> np,
     tokens |-> tk, res |-> response, out |-> out]

\* A handler that only answers.
Answer(response, out) ==
    Effect(users, posts, nextUserId, nextPostId, tokens, response, out)

\* Faulty variant of the role of a new user: stored as requested.
registeredRoleAsGiven(role) == role

\* The role of a new user: the requested one if it is a valid role, VIEWER
\* otherwise.
registeredRole(role) == IF Includes(ValidRoles, role) THEN role ELSE "VIEWER"

\* Faulty variant of the registration: a taken username is not rejected.
registerHandlerAllowingDuplicates(r) ==
    LET username == r.body.username
        password == r.body.password
        email == r.body.email
        role == r.body.role
    IN
    IF Falsy(username) \/ Falsy(password)
    THEN Answer(Response(400, [text |-> "Username and password are required."]), <<>>)
    ELSE
      LET newUser == [id |-> nextUserId, username |-> username,
                      password |-> hashPassword(password),
                      email |-> IF Falsy(email) THEN username \o "@example.com"
                                ELSE email,
                      role |-> registeredRole(role)]
          token == jwtSign([userId |-> newUser.id, role |-> newUser.role,
                            username |-> newUser.username], now)
      IN Effect(Append(users, newUser), posts, nextUserId + 1, nextPostId,
                tokens \cup {token},
                Response(200, [token |-> token, role |-> newUser.role,
                               userId |-> newUser.id, username |-> newUser.username]),
                <<>>)

\* POST /api/auth/register
registerHandler(r) ==
    LET username == r.body.username
        password == r.body.password
        email == r.body.email
        role == r.body.role
    IN
    IF Falsy(username) \/ Falsy(password)
    THEN Answer(Response(400, [text |-> "Username and password are required."]), <<>>)
    ELSE IF \E i \in 1..Len(users) : users[i].username = username
    THEN Answer(Response(400, [text |-> "User already exists."]), <<>>)
    ELSE
      LET newUser == [id |-> nextUserId, username |-> username,
                      password |-> hashPassword(password),
                      email |-> IF Falsy(email) THEN username \o "@example.com"
                                ELSE email,
                      role |-> registeredRole(role)]
          token == jwtSign([userId |-> newUser.id, role |-> newUser.role,
                            username |-> newUser.username], now)
      IN Effect(Append(users, newUser), posts, nextUserId + 1, nextPostId,
                tokens \cup {token},
                Response(200, [token |-> token, role |-> newUser.role,
                               userId |-> newUser.id, username |-> newUser.username]),
                <<>>)

\* POST /api/auth/login
loginHandler(r) ==
    LET i == FindIndexByUsername(users, r.body.username) IN
    IF i = 0 \/ ~compareSync(r.body.password, users[i].password)
    THEN Answer(Response(400, [text |-> "Invalid username or password."]), <<>>)
    ELSE
      LET user == users[i]
          token == jwtSign([userId |-> user.id, role |-> user.role,
                            username |-> user.username], now)
      IN Effect(users, posts, nextUserId, nextPostId, tokens \cup {token},
                Response(200, [token |-> token, role |-> user.role,
                               userId |-> user.id, username |-> user.username]),
                <<>>)

\* Faulty variant of the creation: the id is the position in the array.
createPostHandlerCountingPosts(r) ==
    LET newPost == [id |-> Len(posts) + 1, title |-> r.body.title,
                    content |-> r.body.content, authorId |-> r.user.id,
                    author |-> r.user.username, createdAt |-> now,
                    updatedAt |-> <<>>]
    IN Effect(users, Append(posts, newPost), nextUserId, nextPostId + 1, tokens,
              Response(201, newPost), <<>>)

\* POST /api/posts
createPostHandler(r) ==
    LET newPost == [id |-> nextPostId, title |-> r.body.title,
                    content |-> r.body.content, authorId |-> r.user.id,
                    author |-> r.user.username, createdAt |-> now,
                    updatedAt |-> <<>>]
    IN Effect(users, Append(posts, newPost), nextUserId, nextPostId + 1, tokens,
              Response(201, newPost), <<>>)

\* GET /api/posts
readPostsHandler(r) ==
    Answer(Response(200,
                    [posts |-> [i \in 1..Len(posts) |->
                        [id |-> posts[i].id, title |-> posts[i].title,
                         content |-> posts[i].content, author |-> posts[i].author,
                         authorId |-> posts[i].authorId,
                         createdAt |-> posts[i].createdAt]]]),
           <<>>)

\* Faulty variant of the row-level check: nobody is turned away.
notOwnerNever(r, post) == FALSE

\* Faulty variant of the row-level check: the flag is tested the wrong way
\* round.
notOwnerUnlessFlagged(r, post) ==
    ~r.isOwnerCheckRequired /\ post.authorId # r.user.id

\* The row-level check of the update and delete handlers: the gate flagged
\* the request and the post is someone else's.
notOwner(r, post) == r.isOwnerCheckRequired /\ post.authorId # r.user.id

\* Faulty variant of the update: the post passes to whoever updates it.
updatedPostTakenOver(r, post) ==
    [post EXCEPT
       !.title = IF Falsy(r.body.title) THEN post.title ELSE r.body.title,
       !.content = IF Falsy(r.body.content) THEN post.content ELSE r.body.content,
       !.authorId = r.user.id,
       !.author = r.user.username,
       !.updatedAt = <<now>>]

\* {...post, title: req.body.title || post.title,
\*  content: req.body.content || post.content, updatedAt: new Date()}
updatedPost(r, post) ==
    [post EXCEPT
       !.title = IF Falsy(r.body.title) THEN post.title ELSE r.body.title,
       !.content = IF Falsy(r.body.content) THEN post.content ELSE r.body.content,
       !.updatedAt = <<now>>]

\* PUT /api/posts/:id
updatePostHandler(r) ==
    LET postId == ParseInt(r.id)
        postIndex == FindIndexById(posts, postId)
    IN
    IF postIndex = 0
    THEN Answer(Response(404, [text |-> "Post not found."]), <<>>)
    ELSE
      LET post == posts[postIndex] IN
      IF notOwner(r, post)
      THEN Answer(Response(403, [error |-> "Forbidden. You can only update your own posts."]),
                  << [level |-> "log", message |-> "Authorization Denial (403): update",
                      username |-> r.user.username, postId |-> postId,
                      authorId |-> post.authorId] >>)
      ELSE
        LET updated == updatedPost(r, post)
        IN Effect(users, [posts EXCEPT ![postIndex] = updated], nextUserId,
                  nextPostId, tokens, Response(200, updated), <<>>)

\* DELETE /api/posts/:id
deletePostHandler(r) ==
    LET postId == ParseInt(r.id)
        postIndex == FindIndexById(posts, postId)
    IN
    IF postIndex = 0
    THEN Answer(Response(404, [text |-> "Post not found."]), <<>>)
    ELSE
      LET post == posts[postIndex] IN
      IF notOwner(r, post)
      THEN Answer(Response(403, [error |-> "Forbidden. You can only delete your own posts."]),
                  << [level |-> "log", message |-> "Authorization Denial (403): delete",
                      username |-> r.user.username, postId |-> postId,
                      authorId |-> post.authorId] >>)
      ELSE Effect(users, Splice(posts, postIndex), nextUserId, nextPostId, tokens,
                  Response(200, [message |-> "Post deleted successfully."]), <<>>)

\* GET /api/admin/users
listUsersHandler(r) ==
    Answer(Response(200,
                    [users |-> [i \in 1..Len(users) |->
                        [id |-> users[i].id, username |-> users[i].username,
                         role |-> users[i].role, email |-> users[i].email]]]),
           <<>>)

\* Faulty variant of the validation: nothing is rejected.
isValidRoleAlways(newRole) == TRUE

\* Faulty variant of the validation: any non-empty role passes.
isValidRoleIfPresent(newRole) == ~Falsy(newRole)

\* The check of the target role against the literal list of roles.
isValidRole(newRole) == Includes(ValidRoles, newRole)

\* Faulty variant of the write: the update is lost.
writeRoleLost(userIndex, newRole) == users

\* users[userIndex].role = newRole
writeRole(userIndex, newRole) == [users EXCEPT ![userIndex].role = newRole]

\* Faulty variant of the audit line: old and new role swapped.
auditRecordSwapped(userId, username, adminId, oldRole, newRole) ==
    [level |-> "log", message |-> "[AUDIT] Role changed",
     userId |-> userId, username |-> username, adminId |-> adminId,
     oldRole |-> newRole, newRole |-> oldRole]

\* The [AUDIT] line of a role change.
auditRecord(userId, username, adminId, oldRole, newRole) ==
    [level |-> "log", message |-> "[AUDIT] Role changed",
     userId |-> userId, username |-> username, adminId |-> adminId,
     oldRole |-> oldRole, newRole |-> newRole]

\* PUT /api/admin/users/:id/role
changeRoleHandler(r) ==
    LET userId == ParseInt(r.id)
        newRole == r.body.newRole
    IN
    IF ~isValidRole(newRole)
    THEN Answer(Response(400, [text |-> "Invalid role provided."]), <<>>)
    ELSE
      LET userIndex == FindIndexById(users, userId) IN
      IF userIndex = 0
      THEN Answer(Response(404, [text |-> "User not found."]), <<>>)
      ELSE
        LET oldRole == users[userIndex].role
            written == writeRole(userIndex, newRole)
        IN Effect(written, posts, nextUserId, nextPostId, tokens,
                  Response(200, [message |-> "Role updated", newRole |-> newRole,
                                 username |-> written[userIndex].username]),
                  << auditRecord(userId, written[userIndex].username, r.user.id,
                                 oldRole, newRole) >>)

\* The handler of a route.
handler(route, r) ==
    CASE route = "register" -> registerHandler(r)
      [] route = "login" -> loginHandler(r)
      [] route = "createPost" -> createPostHandler(r)
      [] route = "readPosts" -> readPostsHandler(r)
      [] route = "updatePost" -> updatePostHandler(r)
      [] route = "deletePost" -> deletePostHandler(r)
      [] route = "listUsers" -> listUsersHandler(r)
      [] route = "changeRole" -> changeRoleHandler(r)

\* The route handler runs on request r and sends the response.
Handle(r) ==
    LET e == handler(r.route, r) IN
    /\ users' = e.users
    /\ posts' = e.posts
    /\ nextUserId' = e.nextUserId
    /\ nextPostId' = e.nextPostId
    /\ tokens' = e.tokens
    /\ res' = e.res
    /\ log' = log \o e.out
    /\ req' = r
    /\ pc' = "done"
    /\ UNCHANGED now

\* A request r to an unguarded route arrives; its handler is the route's
\* only callback.
Open(route) ==
    /\ served < MaxRequests
    /\ \E r \in RequestsTo(route) : Handle(r)
    /\ served' = served + 1

\* authorize called next(): the handler of the guarded route runs.
Guarded(route) ==
    /\ req.route = route
    /\ Handle(req)
    /\ UNCHANGED served

Register == pc = "idle" /\ Open("register")

Login == pc = "idle" /\ Open("login")

CreatePost == pc = "handler" /\ Guarded("createPost")

ReadPosts == pc = "handler" /\ Guarded("readPosts")

UpdatePost == pc = "handler" /\ Guarded("updatePost")

DeletePost == pc = "handler" /\ Guarded("deletePost")

ListUsers == pc = "handler" /\ Guarded("listUsers")

ChangeRole == pc = "handler" /\ Guarded("changeRole")

Next ==
    \/ Tick
    \/ AuthMiddleware
    \/ Authorize
    \/ Register
    \/ Login
    \/ CreatePost
    \/ ReadPosts
    \/ UpdatePost
    \/ DeletePost
    \/ ListUsers
    \/ ChangeRole
    \/ Finish

Spec == Init /\ [][Next]_vars

(* ------------------------- a failing log sink -------------------------- *)

\* What Express's default error handler sends when a callback throws.
InternalServerError == Response(500, [text |-> "Internal Server Error"])

\* One of the console calls that write out throws: the records before it
\* are written, the rest of the callback does not run.
WrittenBeforeThrow(out) ==
    /\ out # <<>>
    /\ \E k \in 0..(Len(out) - 1) : log' = log \o SubSeq(out, 1, k)

\* A request to a guarded route arrives and the console.log of
\* authMiddleware throws, before the 401 or 400 is sent.
AuthMiddlewareThrows ==
    /\ pc = "idle"
    /\ served < MaxRequests
    /\ \E route \in {x \in DOMAIN Routes : Routes[x].auth} :
          \E r \in RequestsTo(route) :
             /\ WrittenBeforeThrow(authMiddleware(r).out)
             /\ req' = r
    /\ res' = InternalServerError
    /\ pc' = "done"
    /\ served' = served + 1
    /\ UNCHANGED <<users, posts, nextUserId, nextPostId, tokens, now>>

\* A console call of the gate's denial throws, before the 403 is sent.
AuthorizeThrows ==
    /\ pc = "authorize"
    /\ WrittenBeforeThrow(authorize(req.gate.resource, req.gate.action,
                                    req.gate.isOwnerCheck, req).out)
    /\ res' = InternalServerError
    /\ pc' = "done"
    /\ UNCHANGED <<users, posts, nextUserId, nextPostId, tokens, now, served, req>>

\* The console.log of a handler throws: what the handler wrote to the
\* arrays before the call stays, the response after it is not sent.
HandlerThrows ==
    /\ pc = "handler"
    /\ LET e == handler(req.route, req) IN
       /\ WrittenBeforeThrow(e.out)
       /\ users' = e.users
       /\ posts' = e.posts
       /\ nextUserId' = e.nextUserId
       /\ nextPostId' = e.nextPostId
       /\ tokens' = e.tokens
    /\ res' = InternalServerError
    /\ pc' = "done"
    /\ UNCHANGED <<now, served, req>>

SinkNext ==
    \/ Next
    \/ AuthMiddlewareThrows
    \/ AuthorizeThrows
    \/ HandlerThrows

\* The server with a log sink whose writes may throw.
SpecSink == Init /\ [][SinkNext]_vars

(* ----------------------- the gate on its own --------------------------- *)

\* Roles an identity may carry into the gate: the matrix's roles, a role the
\* matrix does not have, no role, and a role named like a built-in property.
GateRoles == DOMAIN PERMISSIONS \cup {"GUEST", Undefined, "constructor"}

GateResources == {"posts", "users", "admin"}

GateActions == {"create", "read", "update", "delete", "manage_roles"}

\* Requests that authMiddleware has passed on, for every gate the
\* vocabulary allows.
GateRequests ==
    {[NoRequest EXCEPT !.route = "gate",
                       !.gate = Gate(resource, action, isOwnerCheck),
                       !.user = [id |-> 2, role |-> role, username |-> "someone"]] :
        role \in GateRoles, resource \in GateResources, action \in GateActions,
        isOwnerCheck \in BOOLEAN}

\* authorize(resource, action, isOwnerCheck) is about to run on a request.
GateInit ==
    /\ users = SeedUsers
    /\ posts = SeedPosts
    /\ nextUserId = Len(SeedUsers) + 1
    /\ nextPostId = Len(SeedPosts) + 1
    /\ tokens = {}
    /\ log = SeedLog
    /\ now = 0
    /\ served = 1
    /\ pc = "authorize"
    /\ req \in GateRequests
    /\ res = NoResponse

GateNext == Authorize

SpecGate == GateInit /\ [][GateNext]_vars

(* ------------------------------- claims -------------------------------- *)

RecognizedRoles == {"ADMIN", "EDITOR", "VIEWER"}

\* The elements of an array.
Elements(arr) == {arr[i] : i \in 1..Len(arr)}

\* The matrix lists the action under the role's resource key.
UnconditionalGrant(role, resource, action) ==
    /\ role \in DOMAIN PERMISSIONS
    /\ resource \in DOMAIN PERMISSIONS[role]
    /\ action \in Elements(PERMISSIONS[role][resource])

\* The matrix lists the action under the role's self_ key of the resource.
SelfScopedGrant(role, resource, action) ==
    /\ role \in DOMAIN PERMISSIONS
    /\ ("self_" \o resource) \in DOMAIN PERMISSIONS[role]
    /\ action \in Elements(PERMISSIONS[role]["self_" \o resource])

\* The gate has decided on the request in the chain.
GateDecided == pc \in {"handler", "done"} /\ req.gate # NoGate /\ req.user # NoUser

\* The gate called next().
LetThrough == pc = "handler"

\* C1: for a recognized role, the gate lets the request through without the
\* ownership flag exactly when the matrix holds the unconditional grant,
\* whatever the route's ownership argument.
C1_UnconditionalIffGranted ==
    (GateDecided /\ req.user.role \in RecognizedRoles)
        => ((LetThrough /\ ~req.isOwnerCheckRequired)
                <=> UnconditionalGrant(req.user.role, req.gate.resource, req.gate.action))

\* ADMIN passes posts:update on an ownership-aware route with no flag set.
C1_Witness ==
    /\ GateDecided
    /\ req.user.role = "ADMIN"
    /\ req.gate = Gate("posts", "update", TRUE)
    /\ LetThrough
    /\ ~req.isOwnerCheckRequired

\* C2: with only the self-scoped grant and the ownership argument true, the
\* gate lets the request through and flags it for the ownership check.
C2_SelfScopedFlagged ==
    (/\ GateDecided
     /\ req.gate.isOwnerCheck
     /\ ~UnconditionalGrant(req.user.role, req.gate.resource, req.gate.action)
     /\ SelfScopedGrant(req.user.role, req.gate.resource, req.gate.action))
        => (LetThrough /\ req.isOwnerCheckRequired)

\* EDITOR passes posts:update flagged.
C2_Witness ==
    /\ GateDecided
    /\ req.user.role = "EDITOR"
    /\ req.gate = Gate("posts", "update", TRUE)
    /\ LetThrough
    /\ req.isOwnerCheckRequired

\* C3: without the ownership argument the self_ key is not consulted: no
\* unconditional grant means a 403, self-scoped grant or not.
C3_SelfKeyOnlyOnRequest ==
    (/\ GateDecided
     /\ ~req.gate.isOwnerCheck
     /\ ~UnconditionalGrant(req.user.role, req.gate.resource, req.gate.action))
        => (pc = "done" /\ res.status = 403 /\ ~req.isOwnerCheckRequired)

\* EDITOR is denied posts:update when the route does not ask for ownership.
C3_Witness ==
    /\ GateDecided
    /\ req.user.role = "EDITOR"
    /\ req.gate = Gate("posts", "update", FALSE)
    /\ SelfScopedGrant("EDITOR", "posts", "update")
    /\ pc = "done"
    /\ res.status = 403

\* The last record of the console output.
LastLog == log[Len(log)]

\* C6: an identity with an unrecognized role is denied by the gate, and the
\* denial is the configuration fault (its own response and warning), not the
\* ordinary AuthorizationDenied denial.
C6_UnrecognizedRoleIsConfigFault ==
    (GateDecided /\ req.user.role \notin RecognizedRoles)
        => (/\ pc = "done"
            /\ res = InvalidRoleConfiguration
            /\ LastLog.level = "warn"
            /\ LastLog.message # "AuthorizationDenied")

\* The ids of an array's records.
Ids(arr) == {arr[i].id : i \in 1..Len(arr)}

\* The request in the chain holds a grant of the matrix for its route.
Granted ==
    \/ UnconditionalGrant(req.user.role, req.gate.resource, req.gate.action)
    \/ /\ req.gate.isOwnerCheck
       /\ SelfScopedGrant(req.user.role, req.gate.resource, req.gate.action)

\* C4: a request the gate flagged for the ownership check changes or removes
\* a post only if the post's authorId is the requester's id.
C4_FlaggedRequestTouchesOwnPostsOnly ==
    [][(pc = "handler" /\ req.route \in {"updatePost", "deletePost"}
            /\ req.isOwnerCheckRequired)
        => \A i \in 1..Len(posts) :
              (\A j \in 1..Len(posts') : posts'[j] # posts[i])
                  => posts[i].authorId = req.user.id]_vars

\* A flagged request has updated or deleted a post.
C4_Witness ==
    /\ pc = "done"
    /\ req.route \in {"updatePost", "deletePost"}
    /\ req.isOwnerCheckRequired
    /\ res.status = 200

\* C5: a request the gate denies is answered with the gate's 403, which
\* depends on role, resource and action alone, not on the posts array; a 404
\* is sent only to a request the gate let through.
C5_DenialIndependentOfStore ==
    (pc = "done" /\ req.gate # NoGate /\ req.user # NoUser)
        => /\ ~Granted => res = Forbidden(req.user.role, req.gate.resource,
                                          req.gate.action)
           /\ res.status = 404 => Granted

\* A VIEWER's delete of a post that does not exist is answered 403.
C5_Witness ==
    /\ pc = "done"
    /\ req.route = "deletePost"
    /\ req.user.role = "VIEWER"
    /\ ParseInt(req.id) \notin Ids(posts)
    /\ res.status = 403

\* A registration that supplies a role outside the closed set has run.
RegisteredWithInvalidRole ==
    /\ pc = "done"
    /\ req.route = "register"
    /\ req.body.role \notin RecognizedRoles \cup {Undefined}

\* C7 as claimed: a registration that supplies a role outside the closed set
\* is rejected.
C7_InvalidRoleRejected == RegisteredWithInvalidRole => res.status = 400

\* C7 as the code has it: a role outside the closed set supplied at
\* registration is never stored; the registration goes through as soon as
\* username and password are acceptable, and the new user is a VIEWER.
C7_InvalidRoleBecomesViewer ==
    [][RegisteredWithInvalidRole'
        => /\ \A i \in 1..Len(users') : users'[i].role # req'.body.role
           /\ res'.status = 200
                 => /\ Len(users') = Len(users) + 1
                    /\ SubSeq(users', 1, Len(users)) = users
                    /\ users'[Len(users')].role = "VIEWER"
                    /\ users'[Len(users')].username = req'.body.username
                    /\ res'.body.role = "VIEWER"
           /\ res'.status # 200 => (res'.status = 400 /\ users' = users)
           /\ res'.status = 200
                 <=> (/\ ~Falsy(req'.body.username)
                      /\ ~Falsy(req'.body.password)
                      /\ \A i \in 1..Len(users) :
                            users[i].username # req'.body.username)]_vars

\* A registration asking for role GUEST has created a user.
C7_Witness == RegisteredWithInvalidRole /\ res.status = 200

\* The [AUDIT] records of the console output.
AuditRecords(l) == SelectSeq(l, LAMBDA e : e.message = "[AUDIT] Role changed")

\* C8: a role-change request with a target role outside the closed set
\* changes no user record and emits no audit record at any point of the
\* chain; its handler answers 400 and writes nothing at all, whether or not
\* the target user exists.
C8_InvalidTargetRoleRejected ==
    [][(req'.route = "changeRole" /\ req'.body.newRole \notin RecognizedRoles)
        => /\ users' = users
           /\ AuditRecords(log') = AuditRecords(log)
           /\ pc = "handler" => (log' = log /\ res'.status = 400)]_vars

\* A role change to GUEST for a user id that does not exist was answered 400.
C8_Witness ==
    /\ pc = "done"
    /\ req.route = "changeRole"
    /\ req.body.newRole = "GUEST"
    /\ ParseInt(req.id) \notin Ids(users)
    /\ res.status = 400

\* The handler of a role change has just written the role.
RoleMutated == pc = "handler" /\ req.route = "changeRole" /\ res'.status = 200

\* The step appends exactly one record to the console output, the audit
\* record of the role change of this step.
OneAuditRecord ==
    /\ Len(log') = Len(log) + 1
    /\ SubSeq(log', 1, Len(log)) = log
    /\ LET e == log'[Len(log')]
           i == FindIndexById(users, ParseInt(req.id))
       IN /\ e.message = "[AUDIT] Role changed"
          /\ e.userId = users[i].id
          /\ e.oldRole = users[i].role
          /\ e.newRole = req.body.newRole
          /\ e.newRole = users'[i].role
          /\ e.adminId = req.user.id

AuditsOf(userId) == SelectSeq(AuditRecords(log), LAMBDA e : e.userId = userId)

\* C10: whatever the order in which role changes of one user commit, the
\* stored role is a recognized role, the one the last committed request
\* asked for, and the previous role each request reports is the role the
\* commit before it left (the seeded role for the first).
C10_LastCommittedWins ==
    \A i \in 1..Len(users) :
        LET a == AuditsOf(users[i].id) IN
        /\ users[i].role \in RecognizedRoles
        /\ a # <<>> =>
              /\ users[i].role = a[Len(a)].newRole
              /\ \A k \in 2..Len(a) : a[k].oldRole = a[k - 1].newRole
              /\ users[i].id <= Len(SeedUsers)
                    => a[1].oldRole = SeedUsers[users[i].id].role

\* Two role changes of one user, asking for different roles, have committed.
C10_Witness ==
    \E i \in 1..Len(users) :
        LET a == AuditsOf(users[i].id) IN
        /\ Len(a) >= 2
        /\ a[1].newRole # a[2].newRole
        /\ users[i].role = a[2].newRole

\* Some user's role differs between the two states of a step.
RoleCommitted ==
    \E i \in 1..Len(users) : i <= Len(users') /\ users'[i].role # users[i].role

\* C11: a role is changed only by the handler of the role route, for a
\* request whose identity holds the admin:manage_roles grant; a role-change
\* request of an identity without the grant is answered 403 by the gate and
\* leaves the user table as it was.
C11_RoleMutationNeedsManageRoles ==
    [][/\ RoleCommitted
          => /\ pc = "handler"
             /\ req.route = "changeRole"
             /\ UnconditionalGrant(req.user.role, "admin", "manage_roles")
       /\ (/\ pc = "authorize"
           /\ req.route = "changeRole"
           /\ ~UnconditionalGrant(req.user.role, "admin", "manage_roles"))
          => (users' = users /\ pc' = "done" /\ res'.status = 403)]_vars

\* An EDITOR's valid role change of an existing user was answered 403.
C11_Witness ==
    /\ pc = "done"
    /\ req.route = "changeRole"
    /\ req.user.role = "EDITOR"
    /\ req.body.newRole \in RecognizedRoles
    /\ ParseInt(req.id) \in Ids(users)
    /\ res.status = 403
    /\ users = SeedUsers

\* Record e is a structured audit event of the denial of request r: it
\* carries the actor's id, the actor's role and the permission the route
\* requires.
StructuredDenialOf(e, r) ==
    /\ {"userId", "role", "requiredPermission"} \subseteq DOMAIN e
    /\ e.userId = r.user.id
    /\ e.role = r.user.role
    /\ e.requiredPermission = <<r.gate.resource, r.gate.action>>

\* C12: every denial (the gate's, the unrecognized role's, the ownership
\* check's in the update and delete handlers) leaves a structured audit
\* event with the actor id, the actor role and the required permission as
\* the last record written.
C12_EveryDenialIsStructured ==
    (pc = "done" /\ res.status = 403) => StructuredDenialOf(LastLog, req)

\* C14 as stated: evaluating the gate writes nothing to the log stream.
C14_GateWritesNothing ==
    [][pc = "authorize" => log' = log]_vars

\* C14: the gate is a function of the request and the permission table and
\* changes no store state. When it lets the request through it writes
\* nothing and changes the request in its ownership flag only; when it
\* denies it writes the denial records itself, the last of them naming the
\* actor and the actor's role, and sends the 403.
C14_GateFrame ==
    [][pc = "authorize"
       => /\ UNCHANGED <<users, posts, nextUserId, nextPostId, tokens>>
          /\ pc' = "handler"
             => /\ log' = log
                /\ res' = NoResponse
                /\ [req' EXCEPT !.isOwnerCheckRequired = FALSE] = req
          /\ pc' # "handler"
             => /\ pc' = "done"
                /\ req' = req
                /\ res'.status = 403
                /\ Len(log') > Len(log)
                /\ SubSeq(log', 1, Len(log)) = log
                /\ log'[Len(log')].level \in {"error", "warn"}
                /\ log'[Len(log')].userId = req.user.id
                /\ log'[Len(log')].role = req.user.role]_vars

\* The gate denied a request and its structured record is the last one
\* written.
C14_Witness ==
    /\ pc = "done"
    /\ res.status = 403
    /\ Len(log) > 0
    /\ LastLog = AuthorizationDenied(req, req.user.role, req.gate.resource,
                                     req.gate.action)

\* The routes authMiddleware guards.
ProtectedRoutes == {route \in DOMAIN Routes : Routes[route].auth}

\* The Authorization header is absent or not of the Bearer scheme.
NoBearer(h) == h = <<>> \/ h[1] # "Bearer"

\* The header's token was not signed by the server or has expired.
BadToken(h) == ~NoBearer(h) /\ ~(h[2].key = JWT_SECRET /\ now < h[2].exp)

\* C15 as stated: a request to a protected route without a valid identity
\* is answered 401.
C15_NoIdentityIs401 ==
    (pc = "done" /\ req.route \in ProtectedRoutes /\ req.user = NoUser)
        => res.status = 401

\* C15: a request to a protected route is stopped by authMiddleware, before
\* the gate and the handler and with the store untouched, when it carries
\* no identity or an invalid one: with 401 when the Authorization header is
\* missing or not a Bearer header, with 400 when the Bearer token fails
\* verification (forged or expired). With a valid token it goes on to the
\* gate.
C15_NoIdentityIsStopped ==
    [][(pc = "idle" /\ pc' # "idle" /\ req'.route \in ProtectedRoutes)
       => LET h == req'.authorization IN
          /\ NoBearer(h) => (pc' = "done" /\ res'.status = 401)
          /\ BadToken(h) => (pc' = "done" /\ res'.status = 400)
          /\ pc' = "done"
             => /\ req'.user = NoUser
                /\ NoBearer(h) \/ BadToken(h)
                /\ UNCHANGED <<users, posts, nextUserId, nextPostId, tokens>>
          /\ pc' # "done" => (pc' = "authorize" /\ req'.user.id = h[2].userId)]_vars

\* A request with an expired token of the server's was answered 400.
C15_Witness ==
    /\ pc = "done"
    /\ req.route \in ProtectedRoutes
    /\ ~NoBearer(req.authorization)
    /\ req.authorization[2].key = JWT_SECRET
    /\ now >= req.authorization[2].exp
    /\ res.status = 400
    /\ req.user = NoUser

\* The role holds the self-scoped grant of an action on posts and not the
\* unconditional one.
OnlySelfScoped(role, action) ==
    /\ SelfScopedGrant(role, "posts", action)
    /\ ~UnconditionalGrant(role, "posts", action)

\* The post the request in the chain names exists and is someone else's.
NamesPostOfAnother ==
    \E i \in 1..Len(posts) :
        posts[i].id = ParseInt(req.id) /\ posts[i].authorId # req.user.id

\* C16: an update or delete of an existing post of someone else, requested
\* by an identity whose role holds only the self-scoped grant, is answered
\* 403, not 404, and leaves the posts as they were.
C16_ForeignPostIs403 ==
    [][(/\ pc = "handler"
        /\ req.route \in {"updatePost", "deletePost"}
        /\ OnlySelfScoped(req.user.role, req.gate.action)
        /\ NamesPostOfAnother)
       => (res'.status = 403 /\ posts' = posts)]_vars

\* An EDITOR's update or delete of another author's post was answered 403.
C16_Witness ==
    /\ pc = "done"
    /\ req.route \in {"updatePost", "deletePost"}
    /\ OnlySelfScoped(req.user.role, req.gate.action)
    /\ NamesPostOfAnother
    /\ res.status = 403
    /\ posts = SeedPosts

\* C17: an identity whose role holds the unconditional grant of update or
\* delete on posts reaches the handler without the ownership flag, and its
\* update or delete of any existing post succeeds, whoever the author is:
\* the post is removed, or replaced by the updated one.
C17_UnconditionalGrantIsFinal ==
    [][(/\ pc = "handler"
        /\ req.route \in {"updatePost", "deletePost"}
        /\ UnconditionalGrant(req.user.role, "posts", req.gate.action))
       => /\ ~req.isOwnerCheckRequired
          /\ \A i \in 1..Len(posts) :
                posts[i].id = ParseInt(req.id)
                    => /\ res'.status = 200
                       /\ req.route = "deletePost"
                          => posts' = Splice(posts, i)
                       /\ req.route = "updatePost"
                          => /\ posts' = [posts EXCEPT ![i] = res'.body]
                             /\ res'.body.updatedAt = <<now>>
                             /\ res'.body.authorId = posts[i].authorId]_vars

\* An ADMIN updated a post of another author.
C17_Witness ==
    /\ pc = "done"
    /\ req.route = "updatePost"
    /\ req.user.role = "ADMIN"
    /\ ~req.isOwnerCheckRequired
    /\ res.status = 200
    /\ res.body.authorId # req.user.id
    /\ res.body \in Elements(posts)

\* An earlier request was flagged by the gate and turned away by the
\* ownership check of its handler.
FlaggedBefore ==
    \E i \in 1..Len(log) :
        log[i].message \in {"Authorization Denial (403): update",
                            "Authorization Denial (403): delete"}

\* C18: the ownership flag belongs to one request. A request carries it
\* exactly when the gate has evaluated this very request, on a route asking
\* for the ownership check, for a role with the self-scoped grant; whatever
\* was flagged before, a request arrives without the flag.
C18_FlagIsPerRequest ==
    req.isOwnerCheckRequired
        <=> /\ pc \in {"handler", "done"}
            /\ req.gate.isOwnerCheck
            /\ SelfScopedGrant(req.user.role, req.gate.resource, req.gate.action)

\* After a flagged request was turned away, a later request passed the gate
\* of a route without ownership check and carries no flag.
C18_Witness ==
    /\ FlaggedBefore
    /\ pc = "handler"
    /\ ~req.gate.isOwnerCheck
    /\ ~req.isOwnerCheckRequired

\* C19: a user created through the public registration endpoint, which no
\* identity guards, gets the role VIEWER: the stored record, the response
\* and the token issued all say VIEWER.
C19_PublicRegistrationGivesViewer ==
    (pc = "done" /\ req.route = "register" /\ res.status = 200)
        => /\ req.user = NoUser
           /\ res.body.role = "VIEWER"
           /\ res.body.token.role = "VIEWER"
           /\ \A i \in 1..Len(users) :
                 users[i].id = res.body.userId => users[i].role = "VIEWER"

(* ------------------------------- client -------------------------------- *)

\* The permission matrix mirrored in the frontend.
ClientPERMISSIONS ==
    [ADMIN  |-> [users |-> <<"create", "read", "update", "delete">>,
                 posts |-> <<"create", "read", "update", "delete">>,
                 admin |-> <<"manage_roles">>],
     EDITOR |-> [posts |-> <<"create", "read">>,
                 self_posts |-> <<"update", "delete">>,
                 users |-> <<"read">>],
     VIEWER |-> [posts |-> <<"read">>]]

\* The user state of useAuth before login: null.
NullUser ==
    [token |-> Undefined, role |-> Undefined, userId |-> Undefined,
     username |-> Undefined]

\* The user states of useAuth after login(data): the body of a register or
\* login response, one per token the server has issued.
ClientUsers ==
    {[token |-> t, role |-> t.role, userId |-> t.userId, username |-> t.username] :
        t \in tokens}

\* Faulty variant of the client guard: the self_ grant is enough, whoever
\* the author is.
canIgnoringAuthor(user, resource, action, itemAuthorId) ==
    /\ user # NullUser
    /\ ~Falsy(user.role)
    /\ Truthy(ClientPERMISSIONS, user.role)
    /\ LET rolePermissions == Get(ClientPERMISSIONS, user.role) IN
       \/ /\ Truthy(rolePermissions, resource)
          /\ Includes(Get(rolePermissions, resource), action)
       \/ /\ itemAuthorId # <<>>
          /\ Truthy(rolePermissions, SelfResource(resource))
          /\ Includes(Get(rolePermissions, SelfResource(resource)), action)

\* can(resource, action, itemAuthorId = null) of useAuth, for the user state
\* it closes over; itemAuthorId is <<>> for null and <<id>> otherwise.
can(user, resource, action, itemAuthorId) ==
    IF user = NullUser \/ Falsy(user.role) THEN FALSE
    ELSE IF ~Truthy(ClientPERMISSIONS, user.role) THEN FALSE
    ELSE
      LET rolePermissions == Get(ClientPERMISSIONS, user.role)
          selfResource == SelfResource(resource)
      IN IF /\ Truthy(rolePermissions, resource)
            /\ Includes(Get(rolePermissions, resource), action)
         THEN TRUE
         ELSE IF /\ itemAuthorId # <<>>
                 /\ Truthy(rolePermissions, selfResource)
                 /\ Includes(Get(rolePermissions, selfResource), action)
         THEN user.userId = itemAuthorId[1]
         ELSE FALSE

\* The guards of the UI: the route each protects, the resource and action it
\* passes to can, and whether it passes the post's authorId.
UiGuards ==
    {[route |-> "createPost", resource |-> "posts", action |-> "create", perPost |-> FALSE],
     [route |-> "updatePost", resource |-> "posts", action |-> "update", perPost |-> TRUE],
     [route |-> "deletePost", resource |-> "posts", action |-> "delete", perPost |-> TRUE],
     [route |-> "readPosts", resource |-> "posts", action |-> "read", perPost |-> FALSE],
     [route |-> "changeRole", resource |-> "admin", action |-> "manage_roles",
      perPost |-> FALSE],
     [route |-> "listUsers", resource |-> "users", action |-> "read", perPost |-> FALSE]}

\* The tokens a logged-in client may hold: of a seeded user's id, with any
\* role, recognized or not (a token keeps its role when the stored one
\* changes).
ClientTokens ==
    {jwtSign([userId |-> id, role |-> role, username |-> "someone"], 0) :
        id \in Ids(SeedUsers), role \in GateRoles}

\* The server as seeded, one client logged in, one request left to serve.
ClientInit ==
    /\ users = SeedUsers
    /\ posts = SeedPosts
    /\ nextUserId = Len(SeedUsers) + 1
    /\ nextPostId = Len(SeedPosts) + 1
    /\ tokens \in {{t} : t \in ClientTokens}
    /\ log = SeedLog
    /\ now = 0
    /\ served = MaxRequests - 1
    /\ pc = "idle"
    /\ req = NoRequest
    /\ res = NoResponse

\* The client's request goes through the chain of its guarded route.
ClientNext ==
    \/ AuthMiddleware
    \/ Authorize
    \/ CreatePost
    \/ ReadPosts
    \/ UpdatePost
    \/ DeletePost
    \/ ListUsers
    \/ ChangeRole
    \/ Finish

SpecClient == ClientInit /\ [][ClientNext]_vars

\* The client user whose token the request in the chain carries.
Requester(u) ==
    /\ req.user # NoUser
    /\ u \in ClientUsers
    /\ u.token = req.authorization[2]

\* C20: for every logged-in client user, every guard of the UI and every
\* existing post, the client's can(resource, action, post.authorId), or
\* can(resource, action) where the UI passes no author, is true exactly when
\* the server's gate and, for update and delete, the handler's ownership
\* check let the same identity's request through: the update or delete of
\* the post is answered 200, any other request is not answered 403.
C20_ClientGuardMirrorsServer ==
    pc = "done"
        => \A u \in ClientUsers : \A g \in UiGuards :
              (Requester(u) /\ g.route = req.route)
                  => IF g.perPost
                     THEN \A p \in Elements(SeedPosts) :
                             p.id = ParseInt(req.id)
                                 => (can(u, g.resource, g.action, <<p.authorId>>)
                                         <=> res.status = 200)
                     ELSE can(u, g.resource, g.action, <<>>) <=> res.status # 403

\* An EDITOR asked to update a post of another author: the client guard
\* says no and the server answered 403.
C20_Witness ==
    /\ pc = "done"
    /\ req.route = "updatePost"
    /\ \E u \in ClientUsers : \E p \in Elements(posts) :
          /\ Requester(u)
          /\ u.role = "EDITOR"
          /\ p.id = ParseInt(req.id)
          /\ p.authorId # u.userId
          /\ ~can(u, "posts", "update", <<p.authorId>>)
    /\ res.status = 403
\* The handler's ownership check turns the request in the chain away.
OwnershipDenies ==
    /\ req.route \in {"updatePost", "deletePost"}
    /\ req.isOwnerCheckRequired
    /\ NamesPostOfAnother

ActorStoredAsAdmin ==
    \E i \in 1..Len(users) : users[i].id = req.user.id /\ users[i].role = "ADMIN"

\* C21: a role mutation is committed only when the role the user table
\* currently stores for the acting user is ADMIN; a user whose stored role
\* was changed away from ADMIN changes no role afterwards.
C21_RoleMutationNeedsStoredAdmin ==
    [][RoleCommitted => ActorStoredAsAdmin]_vars

\* C22: the role stored for every user, and the role in every token issued,
\* is one of ADMIN, EDITOR, VIEWER.
C22_StoredRolesAreRecognized ==
    /\ \A i \in 1..Len(users) : users[i].role \in RecognizedRoles
    /\ \A t \in tokens : t.role \in RecognizedRoles

\* A user has registered, a token was issued and a seeded user's role was
\* changed.
C22_Witness ==
    /\ Len(users) > Len(SeedUsers)
    /\ tokens # {}
    /\ \E i \in 1..Len(SeedUsers) : users[i].role # SeedUsers[i].role

\* C23: a post is created with the creating identity's id as authorId, and
\* no step changes the id or the authorId of a post: a post that is still
\* there after a step has the author it had, and an update changes nothing
\* of a post but its title, content and updatedAt.
C23_AuthorshipIsFixed ==
    [][/\ \A i \in 1..Len(posts) : \A j \in 1..Len(posts') :
             posts'[j].id = posts[i].id
                 => [posts'[j] EXCEPT !.title = posts[i].title,
                                      !.content = posts[i].content,
                                      !.updatedAt = posts[i].updatedAt] = posts[i]
       /\ (pc = "handler" /\ req.route = "updatePost")
             => /\ Len(posts') = Len(posts)
                /\ \A i \in 1..Len(posts) : posts'[i].id = posts[i].id
       /\ (pc = "handler" /\ req.route = "createPost")
             => /\ posts' = Append(posts, res'.body)
                /\ res'.body.authorId = req.user.id
                /\ res'.body.id \notin Ids(posts)]_vars

\* A post created through the API was updated afterwards and is still its
\* creator's.
C23_Witness ==
    /\ pc = "done"
    /\ req.route = "updatePost"
    /\ res.status = 200
    /\ res.body.id > Len(SeedPosts)
    /\ res.body.updatedAt # <<>>
    /\ res.body.authorId = req.user.id
    /\ res.body \in Elements(posts)

\* The records of an array have pairwise distinct ids, all below the counter
\* the next id is taken from.
FreshIds(arr, nextId) ==
    /\ \A i, j \in 1..Len(arr) : arr[i].id = arr[j].id => i = j
    /\ \A i \in 1..Len(arr) : arr[i].id < nextId

\* C24: users have pairwise distinct ids and so have posts; the counters
\* never go back and stay above every id handed out, so the id of a deleted
\* post is not given to a later one.
C24_IdsUniqueNeverReused ==
    [][/\ FreshIds(users, nextUserId) /\ FreshIds(posts, nextPostId)
       /\ FreshIds(users', nextUserId') /\ FreshIds(posts', nextPostId')
       /\ nextUserId' >= nextUserId
       /\ nextPostId' >= nextPostId
       /\ \A j \in 1..Len(posts') :
             posts'[j].id \notin Ids(posts) => posts'[j].id >= nextPostId
       /\ \A j \in 1..Len(users') :
             users'[j].id \notin Ids(users) => users'[j].id >= nextUserId]_vars

\* A post was deleted and a post was created after it.
C24_Witness ==
    /\ pc = "done"
    /\ req.route = "createPost"
    /\ res.status = 201
    /\ Len(posts) = Len(SeedPosts)
    /\ res.body.id = Len(SeedPosts) + 1
    /\ \E i \in 1..Len(SeedPosts) : SeedPosts[i].id \notin Ids(posts)

\* No two users of the array have the same username.
UniqueUsernames(arr) ==
    \A i, j \in 1..Len(arr) : arr[i].username = arr[j].username => i = j

\* The registration lacks a username or a password, or names a user that
\* exists.
Unregistrable(body) ==
    \/ Falsy(body.username)
    \/ Falsy(body.password)
    \/ \E i \in 1..Len(users) : users[i].username = body.username

\* C25: usernames are unique in every state, and a registration with a
\* taken username, or without a username or a password, is answered 400 with
\* the user table and the next-user-id counter unchanged and no token
\* issued.
C25_UsernamesUnique ==
    [][/\ UniqueUsernames(users)
       /\ UniqueUsernames(users')
       /\ (pc = "idle" /\ pc' = "done" /\ req'.route = "register"
              /\ Unregistrable(req'.body))
             => /\ res'.status = 400
                /\ UNCHANGED <<users, nextUserId, tokens>>]_vars

\* After a user has registered, a registration under a taken username, with
\* a password, was answered 400.
C25_Witness ==
    /\ pc = "done"
    /\ req.route = "register"
    /\ res.status = 400
    /\ Len(users) > Len(SeedUsers)
    /\ ~Falsy(req.body.password)
    /\ \E i \in 1..Len(users) : users[i].username = req.body.username

\* C26: a role change with a valid target role for a user id that does not
\* exist is answered 404; no user record changes and no record is written
\* to the log.
C26_UnknownUserIs404 ==
    [][(/\ pc = "handler"
        /\ req.route = "changeRole"
        /\ req.body.newRole \in RecognizedRoles
        /\ ParseInt(req.id) \notin Ids(users))
       => /\ res'.status = 404
          /\ users' = users
          /\ log' = log]_vars

\* An ADMIN's role change with a valid role for a missing user was answered
\* 404.
C26_Witness ==
    /\ pc = "done"
    /\ req.route = "changeRole"
    /\ UnconditionalGrant(req.user.role, "admin", "manage_roles")
    /\ req.body.newRole \in RecognizedRoles
    /\ ParseInt(req.id) \notin Ids(users)
    /\ res.status = 404
    /\ AuditRecords(log) = AuditRecords(SeedLog)

====
